---- MODULE Spec2Model ----
(***************************************************************************)
(* A model of the three scripts of the repository:                         *)
(*   ingest.py        full reload of the graph from two relational sources *)
(*                    followed by the regex driven reference-linking pass  *)
(*   graphrag_app.py  one retrieve-then-generate query                     *)
(*   verify_setup.py  connectivity check and node / REFERENCES counts      *)
(* The graph database is modelled by what the Cypher statements of the     *)
(* scripts do to it: nodes and relationships have identities of their own, *)
(* CREATE always adds, MERGE adds only when nothing matches.  Strings that  *)
(* the regular expression and CONTAINS look into are sequences of          *)
(* one-character strings.  Properties of nodes that no statement reads     *)
(* (file_name, density, the embedding vector, ...) are left out.           *)
(***************************************************************************)
EXTENDS Integers, Sequences, FiniteSets

\* How many times the ingestion script is started in one behaviour.
MaxRuns == 2

(***************************************************************************)
(* Text                                                                    *)
(***************************************************************************)
\* SQL NULL / Python None in a text column.
None == <<"<None>">>

Digits == {"0", "1", "2", "3", "4", "5", "6", "7", "8", "9"}
\* What \s matches among the characters used here.
Whitespace == {" ", "\t", "\n"}

STD == <<"S", "T", "D">>

IsAt(s, p, c) == p >= 1 /\ p <= Len(s) /\ s[p] \in c

\* The last position of the run of digits of s that starts at q.
RECURSIVE DigitsEnd(_, _)
DigitsEnd(s, q) == IF IsAt(s, q + 1, Digits) THEN DigitsEnd(s, q + 1) ELSE q

\* Where the group ([0-9]+) starts when STD\s?([0-9]+) matches at p, 0 when
\* it does not match there.  \s? is greedy and backtracks.
GroupStart(s, p) ==
  IF p + 2 <= Len(s) /\ SubSeq(s, p, p + 2) = STD
  THEN IF IsAt(s, p + 3, Whitespace) /\ IsAt(s, p + 4, Digits) THEN p + 4
       ELSE IF IsAt(s, p + 3, Digits) THEN p + 3
       ELSE 0
  ELSE 0

\* re.findall(r"STD\s?([0-9]+)", s) scanning from position p: the groups of
\* the non-overlapping matches, left to right.
RECURSIVE FindAllFrom(_, _)
FindAllFrom(s, p) ==
  IF p > Len(s) THEN <<>>
  ELSE LET q == GroupStart(s, p) IN
       IF q = 0 THEN FindAllFrom(s, p + 1)
       ELSE <<SubSeq(s, q, DigitsEnd(s, q))>> \o FindAllFrom(s, DigitsEnd(s, q) + 1)

\* An implementation that stops at the first match (re.search).
FindFirst(s) == LET all == FindAllFrom(s, 1) IN
  IF all = <<>> THEN <<>> ELSE <<all[1]>>

FindAll(s) == FindAllFrom(s, 1)

\* Cypher's  code CONTAINS sub ; NULL contains nothing.
Contains(code, sub) ==
  /\ code # None
  /\ \E k \in 1..(Len(code) - Len(sub) + 1) : SubSeq(code, k, k + Len(sub) - 1) = sub

(***************************************************************************)
(* The graph store                                                         *)
(***************************************************************************)
\* A node: [id, label, key, text, born].  key is the property the script
\* looks the node up by (file_id, note_id, doc_id, name), text the one the
\* linking pass reads (content, standard_code; None for the other labels),
\* born the number of the ingestion run that created it (0: before the first).
\* An edge: [id, type, src, dst].
EmptyGraph == [nodes |-> {}, edges |-> {}]

Min(S) == CHOOSE x \in S : \A y \in S : x <= y

FreshNode(g) ==
  Min((1..(Cardinality(g.nodes) + 1)) \ {n.id : n \in g.nodes})
FreshEdge(g) ==
  Min((1..(Cardinality(g.edges) + 1)) \ {e.id : e \in g.edges})

Match(g, label, key) == {n \in g.nodes : n.label = label /\ n.key = key}

CreateNode(g, label, key, text, r) ==
  [g EXCEPT !.nodes = @ \cup {[id |-> FreshNode(g), label |-> label, key |-> key,
                              text |-> text, born |-> r]}]

\* MERGE (x:label {key}) SET x.text = text
MergeNode(g, label, key, text, r) ==
  IF Match(g, label, key) = {}
  THEN CreateNode(g, label, key, text, r)
  ELSE [g EXCEPT !.nodes =
          {IF n \in Match(g, label, key) THEN [n EXCEPT !.text = text] ELSE n : n \in @}]

CreateEdge(g, type, src, dst) ==
  [g EXCEPT !.edges = @ \cup {[id |-> FreshEdge(g), type |-> type, src |-> src, dst |-> dst]}]

\* MERGE (src)-[:type]->(dst)
MergeEdge(g, type, src, dst) ==
  IF \E e \in g.edges : e.type = type /\ e.src = src /\ e.dst = dst
  THEN g
  ELSE CreateEdge(g, type, src, dst)

\* MERGE of one edge per pair of `pairs` (a set of <<src, dst>>), one row
\* after the other.
RECURSIVE MergeEdges(_, _, _)
MergeEdges(g, type, pairs) ==
  IF pairs = {} THEN g
  ELSE LET p == CHOOSE x \in pairs : \A y \in pairs :
                  x[1] < y[1] \/ (x[1] = y[1] /\ x[2] <= y[2])
       IN MergeEdges(MergeEdge(g, type, p[1], p[2]), type, pairs \ {p})

NodesOf(g, label) == {n \in g.nodes : n.label = label}
EdgesOf(g, type) == {e \in g.edges : e.type = type}

\* A uniqueness constraint on label's key cannot be created over data that
\* already violates it.
KeyUnique(g, label) ==
  \A a, b \in NodesOf(g, label) : a.key = b.key => a.id = b.id

(***************************************************************************)
(* The Cypher statements of ingest.py                                      *)
(***************************************************************************)
Ids(S) == {n.id : n \in S}

\* MERGE (c:CADFile {file_id}) SET ...
CadFileStmt(g, file_id, r) == MergeNode(g, "CADFile", file_id, None, r)

\* MATCH (c:CADFile {file_id}) CREATE (n:EngineeringNote {...}) CREATE (c)-[:HAS_NOTE]->(n)
\* once per matched c; a row whose file is not in the graph creates nothing.
RECURSIVE CreateNotes(_, _, _, _)
CreateNotes(g, cs, note, r) ==
  IF cs = {} THEN g
  ELSE LET c == Min(cs)
           n == FreshNode(g)
       IN CreateNotes(CreateEdge(CreateNode(g, "EngineeringNote", note.id, note.content, r),
                                 "HAS_NOTE", c, n),
                      cs \ {c}, note, r)

NoteStmt(g, note, r) == CreateNotes(g, Ids(Match(g, "CADFile", note.file_id)), note, r)

\* MATCH (c:CADFile {file_id}) MERGE (m:Material {name}) SET ... MERGE (c)-[:HAS_MATERIAL]->(m)
MaterialStmt(g, mat, r) ==
  LET cs == Ids(Match(g, "CADFile", mat.file_id)) IN
  IF cs = {} THEN g
  ELSE LET g1 == MergeNode(g, "Material", mat.name, None, r)
       IN MergeEdges(g1, "HAS_MATERIAL", cs \X Ids(Match(g1, "Material", mat.name)))

\* MERGE (s:StandardDocument {doc_id}) SET s.standard_code = ...
DocStmt(g, doc, r) == MergeNode(g, "StandardDocument", doc.doc_id, doc.code, r)

\* The rows of the linking statement: every (n, s) with n.note_id = note_id
\* and s.standard_code CONTAINS code_num.
LinkRows(g, note_id, code_num) ==
  Ids(Match(g, "EngineeringNote", note_id))
    \X Ids({s \in NodesOf(g, "StandardDocument") : Contains(s.text, code_num)})

\* MATCH (n:EngineeringNote {note_id}) MATCH (s:StandardDocument)
\* WHERE s.standard_code CONTAINS code_num MERGE (n)-[:REFERENCES]->(s)
LinkStmt(g, note_id, code_num) ==
  MergeEdges(g, "REFERENCES", LinkRows(g, note_id, code_num))

\* RETURN count(s) as c
LinkCount(g, note_id, code_num) == Cardinality(LinkRows(g, note_id, code_num))

\* A clear that deletes the relationships and leaves the nodes.
ClearEdgesOnly(g) == [g EXCEPT !.edges = {}]

\* MATCH (n) DETACH DELETE n
ClearStmt(g) == EmptyGraph

\* MATCH (n:EngineeringNote) RETURN n.note_id as id, n.content as content
\* (rows taken in the order of the nodes' identities).
RECURSIVE FetchRows(_)
FetchRows(ns) ==
  IF ns = {} THEN <<>>
  ELSE LET n == CHOOSE x \in ns : \A y \in ns : x.id <= y.id
       IN <<[nid |-> n.id, id |-> n.key, content |-> n.text]>> \o FetchRows(ns \ {n})
FetchNotes(g) == FetchRows(NodesOf(g, "EngineeringNote"))

Labels == {"CADFile", "EngineeringNote", "Material", "StandardDocument"}
EdgeTypes == {"HAS_NOTE", "HAS_MATERIAL", "REFERENCES"}
\* The counts an observer of the graph sees (verify_setup.py reports two of them).
Counts(g) == [nodes |-> [l \in Labels |-> Cardinality(NodesOf(g, l))],
              edges |-> [t \in EdgeTypes |-> Cardinality(EdgesOf(g, t))]]

\* The labels setup_constraints puts a uniqueness constraint on, in order.
ConstraintLabels == <<"CADFile", "StandardDocument", "Section">>

(***************************************************************************)
(* Inputs: the environment, the command line, the two relational sources   *)
(* and what the graph holds before the first run.  Identifiers are opaque  *)
(* and written as strings.                                                 *)
(***************************************************************************)
EnvNames == {"NEO4J_URI", "NEO4J_USERNAME", "NEO4J_PASSWORD"}
\* os.getenv gives None for an unset variable; "" and a value are the others.
Unset == "<unset>"
EnvValues == {Unset, "", "set"}
Envs == [EnvNames -> EnvValues]
FullEnv == [v \in EnvNames |-> "set"]

\* not all([...]) is true as soon as one is None or "".
EnvCheckAny(e) == \E v \in EnvNames : e[v] \notin {Unset, ""}

\* all([NEO4J_URI, NEO4J_USERNAME, NEO4J_PASSWORD])
EnvOk(e) == \A v \in EnvNames : e[v] \notin {Unset, ""}

Scripts == {"ingest", "query", "verify"}
\* sys.argv[1:] joined, or NoQuestion when there is no argument.
NoQuestion == "<none>"
Questions == {NoQuestion, "which standard covers welds?"}

T12    == STD \o <<"1", "2">>
TS1    == STD \o <<" ", "1">>
TSS2   == STD \o <<" ", " ", "2">>
TTwice == STD \o <<"1", " ">> \o STD \o <<"1">>
TTwo   == <<"s", "e", "e", " ">> \o STD \o <<"1", ",">> \o STD \o <<"\t", "2">>
TPlain == <<"n", "o", " ", "S", "T", "D">>

Code12   == STD \o <<" ", "1", "2">>
Code1234 == <<"1", "2", "3", "4">>
Code2    == STD \o <<"-", "2">>

Note(id, file_id, content) == [id |-> id, file_id |-> file_id, content |-> content]
Doc(doc_id, code) == [doc_id |-> doc_id, code |-> code]
Mat(file_id, name) == [file_id |-> file_id, name |-> name]

\* cad_engineering_notes: one citation, a short number, a repeated citation,
\* two numbers, two blanks after STD, two rows, a repeated id, a NULL value,
\* a row of a file that is not in cad_files, no row.
NoteTables == {
  <<Note("N1", "F1", T12)>>,
  <<Note("N1", "F1", TS1)>>,
  <<Note("N1", "F1", TTwice)>>,
  <<Note("N1", "F1", TTwo)>>,
  <<Note("N1", "F1", TSS2)>>,
  <<Note("N1", "F1", T12), Note("N2", "F1", TS1)>>,
  <<Note("N1", "F1", T12), Note("N1", "F1", TPlain)>>,
  <<Note("N1", "F1", TS1), Note("N2", "F1", None)>>,
  <<Note("N1", "F9", T12)>>,
  <<>> }

\* rds_documents
DocTables == {
  <<Doc("D1", Code12)>>,
  <<Doc("D1", Code12), Doc("D2", Code1234)>>,
  <<Doc("D1", Code12), Doc("D1", Code2)>>,
  <<Doc("D1", None), Doc("D2", Code2)>>,
  <<>> }

\* cad_files (file_id) and cad_material_properties
FileTables == { <<>>, <<"F1">>, <<"F1", "F2">>, <<"F1", "F1">> }
MatTables == {
  <<>>,
  <<Mat("F1", "steel")>>,
  <<Mat("F1", "steel"), Mat("F2", "steel")>>,
  <<Mat("F1", "steel"), Mat("F1", "steel"), Mat("F1", "alu")>> }

Source(f, n, m, d) == [files |-> f, notes |-> n, mats |-> m, docs |-> d]
DefaultSource ==
  Source(<<"F1", "F2">>, <<Note("N1", "F1", T12), Note("N2", "F1", TS1)>>,
         <<Mat("F1", "steel")>>, <<Doc("D1", Code12), Doc("D2", Code1234)>>)

\* What the store holds before the first run: nothing; the leavings of an
\* earlier load; data no uniqueness constraint was ever put on.
PriorNode(id, label, key, text) ==
  [id |-> id, label |-> label, key |-> key, text |-> text, born |-> 0]
PriorLoad ==
  [nodes |-> {PriorNode(1, "CADFile", "F1", None),
              PriorNode(2, "EngineeringNote", "N7", T12),
              PriorNode(3, "StandardDocument", "D9", Code12),
              PriorNode(4, "Material", "steel", None)},
   edges |-> {[id |-> 1, type |-> "HAS_NOTE", src |-> 1, dst |-> 2],
              [id |-> 2, type |-> "REFERENCES", src |-> 2, dst |-> 3],
              [id |-> 3, type |-> "HAS_MATERIAL", src |-> 1, dst |-> 4]}]
PriorDuplicates ==
  [nodes |-> {PriorNode(1, "CADFile", "F1", None),
              PriorNode(2, "CADFile", "F1", None)},
   edges |-> {}]
PriorGraphs == {EmptyGraph, PriorLoad, PriorDuplicates}

\* The sources an ingestion starts from: every combination of the tables.
IngestSources ==
  {Source(f, n, m, d) : f \in FileTables, n \in NoteTables, m \in MatTables, d \in DocTables}

VARIABLES
  script, env, question, src,          \* inputs, fixed in a behaviour
  graph, constraints, index,           \* the graph store, kept across runs
  pc, i, j, fetched, count,            \* position and locals of the script
  driver, sessions,                    \* the driver and its open sessions
  out, tb, exitCode,                   \* stdout, a printed traceback, exit status
  touched, attempts,                   \* external services used; rag.search calls
  phases, raised, outcome,             \* phases entered, exceptions raised, result
  run, prevCounts                      \* run number; counts the previous run left

inputs == <<script, env, question, src>>
store == <<graph, constraints, index>>
locals == <<i, j, fetched, count>>
vars == <<script, env, question, src, graph, constraints, index, pc, i, j, fetched,
          count, driver, sessions, out, tb, exitCode, touched, attempts, phases,
          raised, outcome, run, prevCounts>>

\* A process that has just been started.
Fresh ==
  /\ pc = "start"
  /\ i = 1 /\ j = 1 /\ fetched = <<>> /\ count = 0
  /\ driver = "none" /\ sessions = 0
  /\ out = <<>> /\ tb = FALSE /\ exitCode = 0
  /\ touched = {} /\ attempts = 0
  /\ phases = <<>> /\ raised = <<>> /\ outcome = "running"

Init ==
  /\ \/ /\ script \in Scripts /\ env \in Envs /\ src = DefaultSource
        /\ question \in (IF script = "query" THEN Questions ELSE {NoQuestion})
        /\ graph \in {EmptyGraph, PriorLoad}
     \/ /\ script = "ingest" /\ env = FullEnv /\ question = NoQuestion
        /\ src \in IngestSources
        /\ graph \in PriorGraphs
  /\ constraints = {} /\ index = FALSE
  /\ run = 1 /\ prevCounts = <<>>
  /\ Fresh

(***************************************************************************)
(* ingest.py                                                               *)
(***************************************************************************)
Say(msg) == out' = Append(out, msg)
Enter(phase) == phases' = Append(phases, phase)

\* A session that is not a context manager stays open when its block is left.
WithLeak(n) == n

\* Leaving a  with driver.session() as session:  block, normally or by an
\* exception: the session is closed.
WithExit(n) == n - 1

\* The phases of main() in the order it calls them.
MainOrderLinkFirst == <<"setup_constraints", "clear_database", "ingest_cad_data",
                        "create_relationships", "ingest_rds_data">>
MainOrder == <<"setup_constraints", "clear_database", "ingest_cad_data",
               "ingest_rds_data", "create_relationships">>

\* Where each phase starts.
PhaseStart == [setup_constraints |-> "sc_open", clear_database |-> "cl_open",
               ingest_cad_data |-> "cad_files_select", ingest_rds_data |-> "rds_select",
               create_relationships |-> "ln_open"]
PhasePcs == {PhaseStart[p] : p \in DOMAIN PhaseStart}

\* The position after `phase` has returned: the next call of main(), or the
\* end of its try block.
AfterPhase(phase) ==
  LET k == CHOOSE n \in 1..Len(MainOrder) : MainOrder[n] = phase IN
  IF k = Len(MainOrder) THEN "complete" ELSE PhaseStart[MainOrder[k + 1]]

\* The driver is left open at the end of main().
DriverLeftOpen(d) == d

\* finally: driver.close()
DriverClose(d) == "closed"

\* An exception reaches main(): the with block it left (if any) closes its
\* session, except prints the message, finally closes the driver.
MainExceptAt(where, inSession, printed, entered) ==
  /\ raised' = Append(raised, where)
  /\ sessions' = IF inSession THEN WithExit(sessions) ELSE sessions
  /\ out' = Append(printed, "An error occurred")
  /\ phases' = entered
  /\ driver' = DriverClose(driver)
  /\ outcome' = "error"
  /\ pc' = "done"
  /\ UNCHANGED <<store, locals, tb, exitCode>>
MainExcept(where, inSession) == MainExceptAt(where, inSession, out, phases)

\* Lines 12-25: the environment is read and checked, then the driver and the
\* embeddings client are constructed; main() follows.
IngestStart ==
  /\ script = "ingest" /\ pc = "start"
  /\ IF ~EnvOk(env)
     THEN /\ Say("Error: Missing environment variables. Please check your .env file.")
          /\ exitCode' = 1 /\ outcome' = "exit" /\ pc' = "done"
          /\ UNCHANGED <<driver, touched>>
     ELSE /\ driver' = "open" /\ touched' = touched \cup {"driver"}
          /\ pc' = PhaseStart[MainOrder[1]]
          /\ UNCHANGED <<out, exitCode, outcome>>
  /\ UNCHANGED <<inputs, store, locals, sessions, tb, attempts, phases, raised, run,
                 prevCounts>>

\* setup_constraints: the session is opened.
setup_constraints ==
  /\ pc = "sc_open"
  /\ Say("Setting up constraints locally...")
  /\ Enter("setup_constraints")
  /\ sessions' = sessions + 1 /\ touched' = touched \cup {"session"}
  /\ i' = 1 /\ pc' = "sc_constraint"
  /\ UNCHANGED <<inputs, store, j, fetched, count, driver, tb, exitCode, attempts,
                 raised, outcome, run, prevCounts>>

\* CREATE CONSTRAINT IF NOT EXISTS ..., one statement per label.
CreateConstraint ==
  /\ pc = "sc_constraint"
  /\ \E fail \in BOOLEAN :
       IF fail \/ (ConstraintLabels[i] \notin constraints
                   /\ ~KeyUnique(graph, ConstraintLabels[i]))
       THEN MainExcept("setup_constraints", TRUE) /\ UNCHANGED touched
       ELSE /\ constraints' = constraints \cup {ConstraintLabels[i]}
            /\ i' = i + 1
            /\ pc' = IF i = Len(ConstraintLabels) THEN "sc_drop" ELSE pc
            /\ UNCHANGED <<graph, index, j, fetched, count, driver, sessions, out, tb,
                           exitCode, touched, phases, raised, outcome>>
  /\ UNCHANGED <<inputs, attempts, run, prevCounts>>

\* DROP INDEX standard_embeddings IF EXISTS, inside its own try: an exception
\* is printed as a warning and the function goes on.
DropIndex ==
  /\ pc = "sc_drop"
  /\ \E fail \in BOOLEAN :
       IF fail
       THEN /\ raised' = Append(raised, "drop_index")
            /\ Say("Index drop warning")
            /\ UNCHANGED <<index, phases>>
       ELSE /\ index' = FALSE
            /\ Enter("drop_index")
            /\ UNCHANGED <<raised, out>>
  /\ pc' = "sc_index"
  /\ UNCHANGED <<inputs, graph, constraints, locals, driver, sessions, tb, exitCode,
                 touched, attempts, outcome, run, prevCounts>>

\* CREATE VECTOR INDEX standard_embeddings IF NOT EXISTS; the with block ends.
CreateIndex ==
  /\ pc = "sc_index"
  /\ \E fail \in BOOLEAN :
       IF fail
       THEN MainExcept("setup_constraints", TRUE)
       ELSE /\ index' = TRUE
            /\ Enter("create_index")
            /\ sessions' = WithExit(sessions)
            /\ pc' = AfterPhase("setup_constraints")
            /\ UNCHANGED <<graph, constraints, locals, driver, out, tb, exitCode,
                           raised, outcome>>
  /\ UNCHANGED <<inputs, touched, attempts, run, prevCounts>>

\* clear_database: the session is opened.
clear_database ==
  /\ pc = "cl_open"
  /\ Say("Clearing existing database...")
  /\ Enter("clear_database")
  /\ sessions' = sessions + 1 /\ touched' = touched \cup {"session"}
  /\ pc' = "cl_run"
  /\ UNCHANGED <<inputs, store, locals, driver, tb, exitCode, attempts, raised,
                 outcome, run, prevCounts>>

\* MATCH (n) DETACH DELETE n; the with block ends.
ClearRun ==
  /\ pc = "cl_run"
  /\ \E fail \in BOOLEAN :
       IF fail
       THEN MainExcept("clear_database", TRUE)
       ELSE /\ graph' = ClearStmt(graph)
            /\ sessions' = WithExit(sessions)
            /\ pc' = AfterPhase("clear_database")
            /\ UNCHANGED <<constraints, index, locals, driver, out, tb, exitCode,
                           phases, raised, outcome>>
  /\ UNCHANGED <<inputs, touched, attempts, run, prevCounts>>

\* ingest_cad_data: get_db_connection, SELECT * FROM cad_files, and the
\* session of the first loop is opened.
ingest_cad_data ==
  /\ pc = "cad_files_select"
  /\ \E fail \in BOOLEAN :
       IF fail
       THEN /\ MainExceptAt("ingest_cad_data", FALSE, Append(out, "Ingesting CAD data..."),
                            Append(phases, "ingest_cad_data"))
            /\ touched' = touched \cup {"sqlite"}
       ELSE /\ Say("Ingesting CAD data...")
            /\ Enter("ingest_cad_data")
            /\ touched' = touched \cup {"sqlite", "session"}
            /\ sessions' = sessions + 1
            /\ i' = 1 /\ pc' = "cad_files"
            /\ UNCHANGED <<store, j, fetched, count, driver, tb, exitCode, raised, outcome>>
  /\ UNCHANGED <<inputs, attempts, run, prevCounts>>

\* One turn of a  for row in rows: session.run(...)  loop inside a with
\* block: the statement for row i, which leaves the graph `after`, or the
\* end of the block at `next`.
LoopTurn(phase, rows, after, next) ==
  /\ IF i <= Len(rows)
     THEN \E fail \in BOOLEAN :
            IF fail
            THEN MainExcept(phase, TRUE)
            ELSE /\ graph' = after
                 /\ i' = i + 1
                 /\ UNCHANGED <<constraints, index, pc, j, fetched, count, driver, sessions,
                                out, tb, exitCode, phases, raised, outcome>>
     ELSE /\ sessions' = WithExit(sessions)
          /\ pc' = next
          /\ UNCHANGED <<store, locals, driver, out, tb, exitCode, phases, raised, outcome>>
  /\ UNCHANGED <<inputs, touched, attempts, run, prevCounts>>

\* The SELECT before a later loop of ingest_cad_data, and its session.
SelectThenOpen(phase, next) ==
  /\ \E fail \in BOOLEAN :
       IF fail
       THEN MainExcept(phase, FALSE)
       ELSE /\ sessions' = sessions + 1
            /\ i' = 1 /\ pc' = next
            /\ UNCHANGED <<store, j, fetched, count, driver, out, tb, exitCode, phases,
                           raised, outcome>>
  /\ UNCHANGED <<inputs, touched, attempts, run, prevCounts>>

CadFiles == pc = "cad_files" /\ 
  LoopTurn("ingest_cad_data", src.files, CadFileStmt(graph, src.files[i], run), "cad_notes_select")

CadNotesSelect == pc = "cad_notes_select" /\ SelectThenOpen("ingest_cad_data", "cad_notes")

CadNotes == pc = "cad_notes" /\ 
  LoopTurn("ingest_cad_data", src.notes, NoteStmt(graph, src.notes[i], run), "cad_mats_select")

CadMatsSelect == pc = "cad_mats_select" /\ SelectThenOpen("ingest_cad_data", "cad_mats")

\* The materials loop; after its block conn.close() and the summary line.
CadMats ==
  /\ pc = "cad_mats"
  /\ IF i <= Len(src.mats)
     THEN LoopTurn("ingest_cad_data", src.mats, MaterialStmt(graph, src.mats[i], run), pc)
     ELSE /\ sessions' = WithExit(sessions)
          /\ Say("Ingested CAD files.")
          /\ pc' = AfterPhase("ingest_cad_data")
          /\ UNCHANGED <<inputs, store, locals, driver, tb, exitCode, touched, attempts,
                         phases, raised, outcome, run, prevCounts>>

\* ingest_rds_data: get_db_connection, SELECT * FROM rds_documents, session.
ingest_rds_data ==
  /\ pc = "rds_select"
  /\ \E fail \in BOOLEAN :
       IF fail
       THEN /\ MainExceptAt("ingest_rds_data", FALSE, Append(out, "Ingesting RDS data..."),
                            Append(phases, "ingest_rds_data"))
            /\ touched' = touched \cup {"sqlite"}
       ELSE /\ Say("Ingesting RDS data...")
            /\ Enter("ingest_rds_data")
            /\ touched' = touched \cup {"sqlite", "session"}
            /\ sessions' = sessions + 1
            /\ i' = 1 /\ pc' = "rds_docs"
            /\ UNCHANGED <<store, j, fetched, count, driver, tb, exitCode, raised, outcome>>
  /\ UNCHANGED <<inputs, attempts, run, prevCounts>>

\* One document: embeddings.embed_query, then the MERGE; either may raise.
\* After the block conn.close() and the summary line.
RdsDocs ==
  /\ pc = "rds_docs"
  /\ IF i <= Len(src.docs)
     THEN /\ \E fail \in BOOLEAN :
               IF fail
               THEN MainExcept("ingest_rds_data", TRUE)
               ELSE /\ graph' = DocStmt(graph, src.docs[i], run)
                    /\ i' = i + 1
                    /\ UNCHANGED <<constraints, index, pc, j, fetched, count, driver,
                                   sessions, out, tb, exitCode, phases, raised, outcome>>
          /\ touched' = touched \cup {"embedder"}
     ELSE /\ sessions' = WithExit(sessions)
          /\ Say("Ingested RDS documents.")
          /\ pc' = AfterPhase("ingest_rds_data")
          /\ UNCHANGED <<store, locals, driver, tb, exitCode, touched, phases, raised,
                         outcome>>
  /\ UNCHANGED <<inputs, attempts, run, prevCounts>>

\* create_relationships: the session is opened.
create_relationships ==
  /\ pc = "ln_open"
  /\ Say("Creating relationships between Notes and Standards...")
  /\ Enter("create_relationships")
  /\ sessions' = sessions + 1 /\ touched' = touched \cup {"session"}
  /\ pc' = "ln_fetch"
  /\ UNCHANGED <<inputs, store, locals, driver, tb, exitCode, attempts, raised,
                 outcome, run, prevCounts>>

\* notes = list(session.run("MATCH (n:EngineeringNote) RETURN ...")); count = 0
LinkFetch ==
  /\ pc = "ln_fetch"
  /\ \E fail \in BOOLEAN :
       IF fail
       THEN MainExcept("create_relationships", TRUE)
       ELSE /\ fetched' = FetchNotes(graph)
            /\ count' = 0 /\ i' = 1 /\ j' = 1
            /\ pc' = "ln_loop"
            /\ UNCHANGED <<store, driver, sessions, out, tb, exitCode, phases, raised,
                           outcome>>
  /\ UNCHANGED <<inputs, touched, attempts, run, prevCounts>>

\* if res and res["c"] > 0: count += 1
CountAfter(c, n) == IF n > 0 THEN c + 1 ELSE c

\* The loops of create_relationships at note i, match j: re.findall on the
\* note's content (a TypeError when it is None), the statement for match j,
\* the next note after the last match, and after the last note the end of
\* the block and the line that reports count.
LinkLoop ==
  /\ pc = "ln_loop"
  /\ IF i > Len(fetched)
     THEN /\ sessions' = WithExit(sessions)
          /\ Say("Created links between Notes and Standards.")
          /\ pc' = AfterPhase("create_relationships")
          /\ UNCHANGED <<store, locals, driver, tb, exitCode, phases, raised, outcome>>
     ELSE IF fetched[i].content = None
     THEN MainExcept("create_relationships", TRUE)
     ELSE IF j > Len(FindAll(fetched[i].content))
     THEN /\ i' = i + 1 /\ j' = 1
          /\ UNCHANGED <<store, pc, fetched, count, driver, sessions, out, tb, exitCode,
                         phases, raised, outcome>>
     ELSE \E fail \in BOOLEAN :
            IF fail
            THEN MainExcept("create_relationships", TRUE)
            ELSE LET code_num == FindAll(fetched[i].content)[j] IN
                 /\ graph' = LinkStmt(graph, fetched[i].id, code_num)
                 /\ count' = CountAfter(count, LinkCount(graph, fetched[i].id, code_num))
                 /\ j' = j + 1
                 /\ UNCHANGED <<constraints, index, pc, i, fetched, driver, sessions, out,
                                tb, exitCode, phases, raised, outcome>>
  /\ UNCHANGED <<inputs, touched, attempts, run, prevCounts>>

\* The end of main()'s try block: the last print, then finally.
Complete ==
  /\ pc = "complete"
  /\ Say("Ingestion complete!")
  /\ driver' = DriverClose(driver)
  /\ outcome' = "complete"
  /\ pc' = "done"
  /\ UNCHANGED <<inputs, store, locals, sessions, tb, exitCode, touched, attempts,
                 phases, raised, run, prevCounts>>

\* The ingestion script is started again on the same sources; the graph
\* store is as the run before left it.
Restart ==
  /\ script = "ingest" /\ pc = "done" /\ run < MaxRuns
  /\ run' = run + 1
  /\ prevCounts' = IF outcome = "complete" THEN <<Counts(graph)>> ELSE <<>>
  /\ pc' = "start"
  /\ i' = 1 /\ j' = 1 /\ fetched' = <<>> /\ count' = 0
  /\ driver' = "none" /\ sessions' = 0
  /\ out' = <<>> /\ tb' = FALSE /\ exitCode' = 0
  /\ touched' = {} /\ attempts' = 0
  /\ phases' = <<>> /\ raised' = <<>> /\ outcome' = "running"
  /\ UNCHANGED <<inputs, store>>

(***************************************************************************)
(* graphrag_app.py                                                         *)
(***************************************************************************)
\* Lines 12-65: the environment check, then the driver, the embedder, the
\* retriever, the chat model and the GraphRAG object are constructed.
QueryStart ==
  /\ script = "query" /\ pc = "start"
  /\ IF ~EnvOk(env)
     THEN /\ Say("Error: Missing environment variables.")
          /\ exitCode' = 1 /\ outcome' = "exit" /\ pc' = "done"
          /\ UNCHANGED <<driver, touched>>
     ELSE /\ driver' = "open" /\ touched' = touched \cup {"driver"}
          /\ pc' = "q_main"
          /\ UNCHANGED <<out, exitCode, outcome>>
  /\ UNCHANGED <<inputs, store, locals, sessions, tb, attempts, phases, raised, run,
                 prevCounts>>

\* __main__ without an argument.
QueryUsage ==
  /\ pc = "q_main" /\ question = NoQuestion
  /\ Say("Usage: python graphrag_app.py 'Your question here'")
  /\ outcome' = "complete" /\ pc' = "done"
  /\ UNCHANGED <<inputs, store, locals, driver, sessions, tb, exitCode, touched,
                 attempts, phases, raised, run, prevCounts>>

\* A handler that lets the exception out of query_graph.
SearchPropagates(raises) ==
  IF raises THEN [answer |-> FALSE, traceback |-> TRUE, error |-> FALSE, returned |-> FALSE]
  ELSE [answer |-> TRUE, traceback |-> FALSE, error |-> FALSE, returned |-> TRUE]

\* What query_graph does with the result of rag.search: the answer is
\* printed, or the traceback and the error line; it returns either way.
SearchOutcome(raises) ==
  IF raises THEN [answer |-> FALSE, traceback |-> TRUE, error |-> TRUE, returned |-> TRUE]
  ELSE [answer |-> TRUE, traceback |-> FALSE, error |-> FALSE, returned |-> TRUE]

\* query_graph(q): the question is printed, rag.search is called once.
query_graph ==
  /\ pc = "q_main" /\ question # NoQuestion
  /\ \E raises \in BOOLEAN :
       LET o == SearchOutcome(raises) IN
       /\ attempts' = attempts + 1
       /\ touched' = touched \cup {"embedder", "session"} \cup (IF raises THEN {} ELSE {"llm"})
       /\ raised' = IF raises THEN Append(raised, "search") ELSE raised
       /\ out' = out \o <<"Question">>
                     \o (IF o.answer THEN <<"Answer">> ELSE <<>>)
                     \o (IF o.error THEN <<"Error processing query">> ELSE <<>>)
       /\ tb' = o.traceback
       /\ outcome' = IF o.returned THEN "complete" ELSE "uncaught"
       /\ exitCode' = IF o.returned THEN 0 ELSE 1
  /\ pc' = "done"
  /\ UNCHANGED <<inputs, store, locals, driver, sessions, phases, run, prevCounts>>

(***************************************************************************)
(* verify_setup.py                                                         *)
(***************************************************************************)
\* except Exception in verify(): the with block it left closes its session;
\* driver.close() is not reached.
VerifyExcept(inSession) ==
  /\ raised' = Append(raised, "verify")
  /\ sessions' = IF inSession THEN WithExit(sessions) ELSE sessions
  /\ Say("FAILED: Connection error")
  /\ outcome' = "error"
  /\ pc' = "done"
  /\ UNCHANGED <<driver, count>>

\* verify() up to verify_connectivity(): the environment check, the driver.
VerifyStart ==
  /\ script = "verify" /\ pc = "start"
  /\ IF ~EnvOk(env)
     THEN /\ out' = out \o <<"Verifying Setup...", "FAILED: Missing environment variables.">>
          /\ outcome' = "exit" /\ pc' = "done"
          /\ UNCHANGED <<driver, touched, raised>>
     ELSE /\ touched' = touched \cup {"driver"}
          /\ \E fail \in BOOLEAN :
               IF fail
               THEN /\ out' = out \o <<"Verifying Setup...", "FAILED: Connection error">>
                    /\ raised' = Append(raised, "verify")
                    /\ driver' = "open"
                    /\ outcome' = "error" /\ pc' = "done"
               ELSE /\ out' = out \o <<"Verifying Setup...", "SUCCESS: Connected to Neo4j.">>
                    /\ driver' = "open"
                    /\ pc' = "v_open"
                    /\ UNCHANGED <<raised, outcome>>
  /\ UNCHANGED <<inputs, store, locals, sessions, tb, exitCode, attempts, phases, run,
                 prevCounts>>

\* with driver.session() as session:
VerifyOpen ==
  /\ pc = "v_open"
  /\ sessions' = sessions + 1 /\ touched' = touched \cup {"session"}
  /\ pc' = "v_count"
  /\ UNCHANGED <<inputs, store, locals, driver, out, tb, exitCode, attempts, phases,
                 raised, outcome, run, prevCounts>>

\* MATCH (n) RETURN count(n) as c
VerifyCount ==
  /\ pc = "v_count"
  /\ \E fail \in BOOLEAN :
       IF fail
       THEN VerifyExcept(TRUE)
       ELSE /\ Say("SUCCESS: Found nodes in the database.")
            /\ pc' = "v_links"
            /\ UNCHANGED <<count, driver, sessions, raised, outcome>>
  /\ UNCHANGED <<inputs, store, i, j, fetched, tb, exitCode, touched, attempts, phases,
                 run, prevCounts>>

\* MATCH ()-[r:REFERENCES]->() RETURN count(r) as c ; the block ends and the
\* driver is closed.
VerifyLinks ==
  /\ pc = "v_links"
  /\ \E fail \in BOOLEAN :
       IF fail
       THEN VerifyExcept(TRUE)
       ELSE /\ Say("SUCCESS: Found REFERENCES relationships.")
            /\ count' = Cardinality(EdgesOf(graph, "REFERENCES"))
            /\ sessions' = WithExit(sessions)
            /\ driver' = "closed"
            /\ outcome' = "complete" /\ pc' = "done"
            /\ UNCHANGED raised
  /\ UNCHANGED <<inputs, store, i, j, fetched, tb, exitCode, touched, attempts, phases,
                 run, prevCounts>>

Next ==
  \/ IngestStart \/ setup_constraints \/ CreateConstraint \/ DropIndex \/ CreateIndex
  \/ clear_database \/ ClearRun
  \/ ingest_cad_data \/ CadFiles \/ CadNotesSelect \/ CadNotes \/ CadMatsSelect \/ CadMats
  \/ ingest_rds_data \/ RdsDocs
  \/ create_relationships \/ LinkFetch \/ LinkLoop \/ Complete
  \/ Restart
  \/ QueryStart \/ QueryUsage \/ query_graph
  \/ VerifyStart \/ VerifyOpen \/ VerifyCount \/ VerifyLinks

Spec == Init /\ [][Next]_vars

(***************************************************************************)
(* Properties                                                              *)
(***************************************************************************)
Range(s) == {s[k] : k \in 1..Len(s)}
IngestComplete == script = "ingest" /\ pc = "done" /\ outcome = "complete"
Notes(g) == NodesOf(g, "EngineeringNote")
Standards(g) == NodesOf(g, "StandardDocument")
HasRef(g, n, s) ==
  \E e \in g.edges : e.type = "REFERENCES" /\ e.src = n.id /\ e.dst = s.id

\* "STD" ends at position e of s.
StdEndsAt(s, e) == e >= 3 /\ s[e - 2] = "S" /\ s[e - 1] = "T" /\ s[e] = "D"

\* The digit sequences a text cites: every maximal run of digits that
\* directly follows "STD" or follows it after one whitespace character.
Cited(s) ==
  {SubSeq(s, qr[1], qr[2]) : qr \in
     {x \in (1..Len(s)) \X (1..Len(s)) :
        /\ x[1] <= x[2]
        /\ \A k \in x[1]..x[2] : s[k] \in Digits
        /\ (x[2] = Len(s) \/ s[x[2] + 1] \notin Digits)
        /\ \/ StdEndsAt(s, x[1] - 1)
           \/ x[1] >= 2 /\ s[x[1] - 1] \in Whitespace /\ StdEndsAt(s, x[1] - 2)}}

\* d occurs in code as a contiguous block.
IsSubstring(code, d) ==
  /\ code # None
  /\ \E k \in 0..(Len(code) - Len(d)) : \A m \in 1..Len(d) : code[k + m] = d[m]

\* C1: after a completed ingestion every note has a REFERENCES edge to every
\* standard whose standard_code contains, as a substring, a digit sequence
\* the note cites after "STD" (at most one whitespace character between).
C1_EveryCitationLinked ==
  IngestComplete =>
    \A n \in Notes(graph) : \A d \in Cited(n.text) : \A s \in Standards(graph) :
      IsSubstring(s.text, d) => HasRef(graph, n, s)

\* A completed run in which "STD12" was linked to the standard "1234".
C1_Witness ==
  /\ IngestComplete
  /\ \E n \in Notes(graph), s \in Standards(graph) :
       n.text = T12 /\ s.text = Code1234 /\ HasRef(graph, n, s)

\* C2: a completed run that follows a completed run leaves the same number
\* of nodes of each label and of edges of each type as that run left.
C2_ReloadIdempotent ==
  (IngestComplete /\ prevCounts # <<>>) => Counts(graph) = prevCounts[1]

\* A second completed run over a graph that held notes and references.
C2_Witness ==
  /\ IngestComplete /\ prevCounts # <<>>
  /\ prevCounts[1].nodes["EngineeringNote"] = 2
  /\ prevCounts[1].edges["REFERENCES"] > 0

\* One of the three variables is unset or empty.
Missing(e) == \E v \in EnvNames : e[v] = Unset \/ e[v] = ""
MissingMessage(sc) ==
  CASE sc = "ingest" -> <<"Error: Missing environment variables. Please check your .env file.">>
    [] sc = "query" -> <<"Error: Missing environment variables.">>
    [] sc = "verify" -> <<"Verifying Setup...", "FAILED: Missing environment variables.">>

\* C3: with a variable unset or empty each script ends at once with its
\* message, the same whichever variables are missing, and never constructs
\* the driver, opens a session, reads a source or calls a model.
C3_MissingEnvExitsEarly ==
  Missing(env) =>
    /\ pc \in {"start", "done"}
    /\ driver = "none" /\ sessions = 0 /\ touched = {} /\ attempts = 0
    /\ pc = "done" =>
         /\ out = MissingMessage(script)
         /\ outcome = "exit"
         /\ exitCode = (IF script = "verify" THEN 0 ELSE 1)

\* The query script has ended with only the password empty.
C3_Witness ==
  /\ script = "query" /\ pc = "done"
  /\ env["NEO4J_URI"] = "set" /\ env["NEO4J_USERNAME"] = "set"
  /\ env["NEO4J_PASSWORD"] = ""

\* The load of this run has begun: its clear has been done.
Loading == script = "ingest" /\ "ingest_cad_data" \in Range(phases)

\* C4: once the run has cleared the graph, no two nodes of a label share
\* their key (file_id, note_id, doc_id, name).
C4_KeysUnique ==
  Loading => \A l \in Labels : KeyUnique(graph, l)

\* Something was written: a node or an edge of g2 is not one of g.
Written(g, g2) == ~(g2.nodes \subseteq g.nodes /\ g2.edges \subseteq g.edges)

\* C5: a run without an error goes through its phases in the one order
\* (index dropped and created again, clear, CAD load, standards load,
\* linking), each once; nothing that was in the graph before the run is in
\* it afterwards; and nothing is written before the clear.
C5_PhaseOrder ==
  /\ []((IngestComplete /\ raised = <<>>) =>
          /\ phases = <<"setup_constraints", "drop_index", "create_index", "clear_database",
                        "ingest_cad_data", "ingest_rds_data", "create_relationships">>
          /\ \A n \in graph.nodes : n.born = run)
  /\ [][Written(graph, graph') => Loading']_vars

\* A second run without an error, over what the first one loaded.
C5_Witness ==
  /\ IngestComplete /\ raised = <<>> /\ run = 2 /\ prevCounts # <<>>
  /\ prevCounts[1].nodes["CADFile"] > 0
  /\ graph.nodes # {}

NotDropIndex(w) == w # "drop_index"
\* The exceptions that were not raised by the DROP INDEX statement.
MainRaises == SelectSeq(raised, NotDropIndex)
PhaseOfEvent(e) == IF e \in {"drop_index", "create_index"} THEN "setup_constraints" ELSE e

\* C6 as stated: whatever raises, the run has stopped with a traceback
\* logged and the driver closed.
C6_AnyExceptionStopsRun ==
  (script = "ingest" /\ raised # <<>>) =>
    pc = "done" /\ outcome = "error" /\ tb /\ driver = "closed"

\* C6 amended: an exception of any statement but DROP INDEX ends the run:
\* the message is printed without a traceback, no later phase is entered,
\* no phase is entered twice, the driver is closed, and the graph is as the
\* statements before the failing one left it.  An exception of DROP INDEX
\* is printed as a warning and the run goes on.
C6_ExceptionStopsRun ==
  /\ []((script = "ingest" /\ MainRaises # <<>>) =>
          /\ pc = "done" /\ outcome = "error"
          /\ Len(MainRaises) = 1
          /\ PhaseOfEvent(phases[Len(phases)]) = MainRaises[1]
          /\ \A a, b \in 1..Len(phases) : phases[a] = phases[b] => a = b
          /\ out[Len(out)] = "An error occurred"
          /\ ~tb
          /\ driver = "closed")
  /\ []((script = "ingest" /\ raised = <<"drop_index">>) =>
          /\ "Index drop warning" \in Range(out)
          /\ pc = "done" => outcome = "complete")
  /\ [][Len(raised') > Len(raised) => graph' = graph]_vars

\* The standards load failed after a failed DROP INDEX, the CAD load kept.
C6_Witness ==
  /\ script = "ingest" /\ pc = "done"
  /\ raised = <<"drop_index", "ingest_rds_data">>
  /\ Notes(graph) # {}

\* C7: a query whose search raises prints the traceback and the error line
\* and no answer, and query_graph returns; the search is called once.
C7_QueryFailsGracefully ==
  /\ attempts <= 1
  /\ (script = "query" /\ pc = "done" /\ outcome # "exit" /\ question # NoQuestion) =>
       /\ attempts = 1
       /\ "search" \in Range(raised) =>
            /\ tb /\ "Answer" \notin Range(out)
            /\ out[Len(out)] = "Error processing query"
            /\ outcome = "complete" /\ exitCode = 0

\* A query whose search raised.
C7_Witness == script = "query" /\ pc = "done" /\ raised = <<"search">>

\* The positions between two with blocks, before the first and after the last.
OutsideSession == {"start", "sc_open", "cl_open", "cad_files_select", "cad_notes_select",
                   "cad_mats_select", "rds_select", "ln_open", "complete", "done",
                   "q_main", "v_open"}

\* C8: at most one session is open at any time, and none is open between
\* two phases or when the script ends, exception or not.
C8_SessionsPerPhase ==
  /\ sessions \in {0, 1}
  /\ pc \in OutsideSession => sessions = 0

\* verify() ended by an exception raised inside its session.
C8_Witness ==
  script = "verify" /\ pc = "done" /\ outcome = "error" /\ "session" \in touched

\* C9: the count the linking pass reports is the number of REFERENCES edges.
C9_CountIsEdgeCount ==
  IngestComplete => count = Cardinality(EdgesOf(graph, "REFERENCES"))

\* C10: after a completed run every REFERENCES edge goes from a note to a
\* standard whose code contains a digit sequence that note cites, and no two
\* REFERENCES edges join the same pair.
C10_OnlyJustifiedEdges ==
  IngestComplete =>
    /\ \A e \in EdgesOf(graph, "REFERENCES") :
         \E n \in Notes(graph), s \in Standards(graph) :
           /\ e.src = n.id /\ e.dst = s.id
           /\ \E d \in Cited(n.text) : IsSubstring(s.text, d)
    /\ \A e, f \in EdgesOf(graph, "REFERENCES") :
         (e.src = f.src /\ e.dst = f.dst) => e.id = f.id

\* The rest of C10, which holds: the linking pass leaves the nodes and the
\* HAS_NOTE and HAS_MATERIAL edges as they are.
C10_LinkingFrame ==
  [][pc = "ln_loop" =>
       /\ graph'.nodes = graph.nodes
       /\ EdgesOf(graph', "HAS_NOTE") = EdgesOf(graph, "HAS_NOTE")
       /\ EdgesOf(graph', "HAS_MATERIAL") = EdgesOf(graph, "HAS_MATERIAL")]_vars
====
